---- MODULE Spec2Model ----
(***************************************************************************)
(* Model of src/RNN/text_rnn.py: the batch-normalised LSTM cell            *)
(* (BatchNormLSTMCell), its initialisers, the batch_norm helper and the    *)
(* TextRNN constructor.                                                    *)
(*                                                                         *)
(* The file has four independent parts, each with its own specification:   *)
(*   SpecBN    executions of one batch_norm site of a built graph          *)
(*   SpecCell  graph construction by BatchNormLSTMCell.__call__ in one     *)
(*             variable scope                                              *)
(*   SpecInit  bn_lstm_identity_initializer (and orthogonal)               *)
(*   SpecText  TextRNN.__init__                                            *)
(* In each specification the variables of the other parts keep their       *)
(* initial values.                                                         *)
(***************************************************************************)
EXTENDS Integers, Sequences, FiniteSets, TLC

VARIABLES
    \* ---- batch_norm: one site of a built graph and its four variables
    training,    \* tf.constant(is_training) captured when the site was built
    feed,        \* the mode the caller asks for when it runs the graph
    pc,          \* position of the running execution ("idle" between runs)
    x,           \* the batch fed to the running execution
    branch,      \* the branch tf.cond took in the last/running execution
    batch_mean,  \* tf.nn.moments(x, [0]) of the running execution
    batch_var,
    done,        \* the assign ops of the running execution that completed
    pop_mean,    \* running estimates (variables, shared by all executions)
    pop_var,
    scale,       \* trainable variables of the site
    offset,
    out,         \* arguments tf.nn.batch_normalization was last applied to
    pre,         \* history: the variables' values when the execution began
    log,         \* history: the batches of the training-mode executions
    taken,       \* history: <<mode wanted, branch taken>> of the executions
                 \* of the site as built
    \* ---- BatchNormLSTMCell: a cell object and the variable scope it is
    \* invoked in
    cell,        \* the fields __init__ sets
    store,       \* the variables of the scope: name -> shape, or NoVar
    called,      \* history: the scope has seen an invocation
    res,         \* history: what the last invocation of the cell object built
                 \* and returned, or how it failed
    \* ---- bn_lstm_identity_initializer
    iargs,       \* the scale the closure captured and the shape it is called on
    tinit,       \* what _initializer returned, or how it failed
    \* ---- TextRNN
    config,      \* the arguments of TextRNN.__init__
    model        \* the object __init__ built, or how it failed

bnVars == <<training, feed, pc, x, branch, batch_mean, batch_var, done,
            pop_mean, pop_var, scale, offset, out, pre, log, taken>>

cellVars == <<cell, store, called, res>>

initVars == <<iargs, tinit>>

textVars == <<config, model>>

vars == <<bnVars, cellVars, initVars, textVars>>

----------------------------------------------------------------------------
(***************************************************************************)
(* Exact arithmetic.  decay = 0.999 and epsilon = 0.001 are decimal        *)
(* fractions, and batch moments of integer batches with B rows are         *)
(* multiples of 1/B^2, so every number the helper handles is               *)
(* n / (Q * DecayDen^k) with Q = B^2: a fixed-point value [n, k] whose     *)
(* numerator n is an unbounded natural in base DecayDen (least digit       *)
(* first, no leading zero digit; TLC's own integers are 32 bits wide).     *)
(* The model computes in exact arithmetic; float32 rounding is not         *)
(* modelled.                                                               *)
(***************************************************************************)
DecayNum == 999
DecayDen == 1000
EpsilonNum == 1
ScaleNum == 100

RECURSIVE BigFromInt(_)
BigFromInt(n) ==
    IF n = 0 THEN <<>> ELSE <<n % DecayDen>> \o BigFromInt(n \div DecayDen)

RECURSIVE BigAddC(_, _, _)
BigAddC(a, b, c) ==
    IF a = <<>> /\ b = <<>>
    THEN IF c = 0 THEN <<>> ELSE <<c>>
    ELSE LET da == IF a = <<>> THEN 0 ELSE Head(a)
             db == IF b = <<>> THEN 0 ELSE Head(b)
             ta == IF a = <<>> THEN <<>> ELSE Tail(a)
             tb == IF b = <<>> THEN <<>> ELSE Tail(b)
             s  == da + db + c
         IN  <<s % DecayDen>> \o BigAddC(ta, tb, s \div DecayDen)

BigAdd(a, b) == BigAddC(a, b, 0)

RECURSIVE BigMulC(_, _, _)
BigMulC(a, m, c) ==
    IF a = <<>>
    THEN IF c = 0 THEN <<>> ELSE <<c>>
    ELSE LET s == Head(a) * m + c
         IN  <<s % DecayDen>> \o BigMulC(Tail(a), m, s \div DecayDen)

\* a * m for a small factor m > 0
BigMulSmall(a, m) == BigMulC(a, m, 0)

\* a * DecayDen^k
BigShift(a, k) == IF a = <<>> THEN <<>> ELSE [i \in 1..k |-> 0] \o a

RECURSIVE FxNorm(_)
FxNorm(v) ==
    IF v.n = <<>> THEN [n |-> <<>>, k |-> 0]
    ELSE IF v.k > 0 /\ Head(v.n) = 0 THEN FxNorm([n |-> Tail(v.n), k |-> v.k - 1])
    ELSE v

Max(a, b) == IF a >= b THEN a ELSE b

FxAdd(a, b) ==
    LET k == Max(a.k, b.k)
    IN  FxNorm([n |-> BigAdd(BigShift(a.n, k - a.k), BigShift(b.n, k - b.k)),
                k |-> k])

\* v * (num / DecayDen)
FxTimes(v, num) == FxNorm([n |-> BigMulSmall(v.n, num), k |-> v.k + 1])

----------------------------------------------------------------------------
(***************************************************************************)
(* batch_norm(x, name_scope, is_training, epsilon=1e-3, decay=0.999)       *)
(***************************************************************************)

\* The batches fed to the site: [batch, values] tensors, here two rows of
\* two features, chosen so that the two features, the rows and the
\* variables' initial values all have different moments.
Batches ==
    { << <<0, 2>>, <<2, 6>> >>,
      << <<1, 1>>, <<1, 5>> >>,
      << <<4, 0>>, <<0, 0>> >> }

BatchRows == Len(CHOOSE b \in Batches : TRUE)
Size == Len((CHOOSE b \in Batches : TRUE)[1])
Q == BatchRows * BatchRows

\* the integer m / Q as a fixed-point value
FxUnits(m) == FxNorm([n |-> BigFromInt(m), k |-> 0])
FxInt(i) == FxUnits(i * Q)

RECURSIVE SumCol(_, _, _)
SumCol(b, j, i) == IF i = 0 THEN 0 ELSE b[i][j] + SumCol(b, j, i - 1)

RECURSIVE SumSqCol(_, _, _)
SumSqCol(b, j, i) == IF i = 0 THEN 0 ELSE b[i][j] * b[i][j] + SumSqCol(b, j, i - 1)

\* tf.nn.moments(x, [0]): per-feature mean and variance across the batch axis
MomentsMean(b) ==
    [j \in 1..Len(b[1]) |-> FxUnits(Len(b) * SumCol(b, j, Len(b)))]

MomentsVar(b) ==
    [j \in 1..Len(b[1]) |->
        FxUnits(Len(b) * SumSqCol(b, j, Len(b))
                - SumCol(b, j, Len(b)) * SumCol(b, j, Len(b)))]

\* Faulty variant: decay and 1 - decay exchanged
MovingAverageSwapped(pop, stat) ==
    [j \in DOMAIN pop |->
        FxAdd(FxTimes(pop[j], DecayDen - DecayNum), FxTimes(stat[j], DecayNum))]

\* pop * decay + batch_stat * (1 - decay), elementwise
MovingAverage(pop, stat) ==
    [j \in DOMAIN pop |->
        FxAdd(FxTimes(pop[j], DecayNum), FxTimes(stat[j], DecayDen - DecayNum))]

\* initializers of the four variables
ZerosInit == [j \in 1..Size |-> FxInt(0)]
OnesInit == [j \in 1..Size |-> FxInt(1)]
ConstantInit == [j \in 1..Size |-> FxTimes(FxInt(1), ScaleNum)]
\* offset has no initializer argument: the library's default draws it at random
OffsetInits == { [j \in 1..Size |-> FxInt(0)], [j \in 1..Size |-> FxInt(j)] }

Epsilon == FxTimes(FxInt(1), EpsilonNum)

NoBatch == <<>>
NoOut == [kind |-> "none"]

\* tf.nn.batch_normalization(x, mean, variance, offset, scale, epsilon),
\* kept as the values of its arguments
BatchNormalization(b, mean, variance, off, sc, eps) ==
    [kind |-> "normalized", x |-> b, mean |-> mean, variance |-> variance,
     offset |-> off, scale |-> sc, epsilon |-> eps]

MaxTrain == 2

NoStat == <<>>
NoPre == [kind |-> "none"]

\* the part is not used: one fixed state
BNOff ==
    /\ training = FALSE
    /\ feed = FALSE
    /\ pc = "off"
    /\ x = <<>>
    /\ branch = "none"
    /\ batch_mean = <<>>
    /\ batch_var = <<>>
    /\ done = {}
    /\ pop_mean = <<>>
    /\ pop_var = <<>>
    /\ scale = <<>>
    /\ offset = <<>>
    /\ out = [kind |-> "none"]
    /\ pre = [kind |-> "none"]
    /\ log = <<>>
    /\ taken = {}

BNInit ==
    /\ training \in BOOLEAN
    /\ feed = FALSE
    /\ pc = "idle"
    /\ x = NoBatch
    /\ branch = "none"
    /\ batch_mean = NoStat
    /\ batch_var = NoStat
    /\ done = {}
    /\ pop_mean = ZerosInit
    /\ pop_var = OnesInit
    /\ scale = ConstantInit
    /\ offset \in OffsetInits
    /\ out = NoOut
    /\ pre = NoPre
    /\ log = <<>>
    /\ taken = {}

\* Graph construction: batch_norm(x, name_scope, is_training) wraps the Python
\* value is_training in tf.constant and hands it to tf.cond as its predicate.
\* Building the site again (the variables are found in the scope and shared)
\* is the only way the predicate gets another value.
batch_norm(is_training) ==
    /\ pc = "idle"
    /\ training' = is_training
    /\ branch' = "none"
    /\ out' = NoOut
    /\ taken' = {}
    /\ UNCHANGED <<feed, pc, x, batch_mean, batch_var, done, pop_mean, pop_var,
                   scale, offset, pre, log>>

\* One execution of the built site starts: the caller feeds a batch and
\* wants mode f; the graph has no input that carries f.
Run(b, f) ==
    /\ pc = "idle"
    /\ training => Len(log) < MaxTrain
    /\ pc' = "cond"
    /\ x' = b
    /\ feed' = f
    /\ branch' = "none"
    /\ batch_mean' = NoStat
    /\ batch_var' = NoStat
    /\ done' = {}
    /\ out' = NoOut
    /\ pre' = [kind |-> "values", mean |-> pop_mean, var |-> pop_var,
               scale |-> scale, offset |-> offset]
    /\ UNCHANGED <<training, pop_mean, pop_var, scale, offset, log, taken>>

\* Faulty variant: the predicate is a value fed at execution time
PredFed == feed

\* the predicate tf.cond evaluates when the graph runs
Pred == training

\* tf.cond(training, batch_statistics, population_statistics)
Cond ==
    /\ pc = "cond"
    /\ branch' = IF Pred THEN "batch" ELSE "population"
    /\ pc' = branch'
    /\ log' = IF Pred THEN Append(log, x) ELSE log
    /\ taken' = taken \cup {<<feed, branch'>>}
    /\ UNCHANGED <<training, feed, x, batch_mean, batch_var, done, pop_mean,
                   pop_var, scale, offset, out, pre>>

\* batch_statistics: batch_mean, batch_var = tf.nn.moments(x, [0])
Moments ==
    /\ pc = "batch"
    /\ batch_mean = NoStat
    /\ batch_mean' = MomentsMean(x)
    /\ batch_var' = MomentsVar(x)
    /\ UNCHANGED <<training, feed, pc, x, branch, done, pop_mean, pop_var,
                   scale, offset, out, pre, log, taken>>

\* train_mean_op = tf.assign(pop_mean, pop_mean * decay + batch_mean * (1 - decay))
train_mean_op ==
    /\ pc = "batch"
    /\ batch_mean # NoStat
    /\ "train_mean_op" \notin done
    /\ pop_mean' = MovingAverage(pop_mean, batch_mean)
    /\ done' = done \cup {"train_mean_op"}
    /\ UNCHANGED <<training, feed, pc, x, branch, batch_mean, batch_var, pop_var,
                   scale, offset, out, pre, log, taken>>

\* train_var_op = tf.assign(pop_var, pop_var * decay + batch_var * (1 - decay))
train_var_op ==
    /\ pc = "batch"
    /\ batch_var # NoStat
    /\ "train_var_op" \notin done
    /\ pop_var' = MovingAverage(pop_var, batch_var)
    /\ done' = done \cup {"train_var_op"}
    /\ UNCHANGED <<training, feed, pc, x, branch, batch_mean, batch_var, pop_mean,
                   scale, offset, out, pre, log, taken>>

\* Faulty variant: the output is built outside the control-dependency block
NoControlDependencies == {}

\* with tf.control_dependencies([train_mean_op, train_var_op]):
ControlDependencies == {"train_mean_op", "train_var_op"}

\* return tf.nn.batch_normalization(x, batch_mean, batch_var, offset, scale, epsilon)
\* The two assign ops are in no other op's inputs: the control dependency is
\* all that makes an execution run them.
batch_statistics ==
    /\ pc = "batch"
    /\ batch_mean # NoStat
    /\ ControlDependencies \subseteq done
    /\ out' = BatchNormalization(x, batch_mean, batch_var, offset, scale, Epsilon)
    /\ pc' = "idle"
    /\ UNCHANGED <<training, feed, x, branch, batch_mean, batch_var, done,
                   pop_mean, pop_var, scale, offset, pre, log, taken>>

\* Faulty variant: the assign ops are built outside the branches of tf.cond, so
\* that they run whichever branch is taken
population_statistics_assigning ==
    /\ pc = "population"
    /\ pop_mean' = MovingAverage(pop_mean, MomentsMean(x))
    /\ pop_var' = MovingAverage(pop_var, MomentsVar(x))
    /\ out' = BatchNormalization(x, pop_mean, pop_var, offset, scale, Epsilon)
    /\ pc' = "idle"
    /\ UNCHANGED <<training, feed, x, branch, batch_mean, batch_var, done,
                   scale, offset, pre, log, taken>>

\* return tf.nn.batch_normalization(x, pop_mean, pop_var, offset, scale, epsilon)
population_statistics ==
    /\ pc = "population"
    /\ out' = BatchNormalization(x, pop_mean, pop_var, offset, scale, Epsilon)
    /\ pc' = "idle"
    /\ UNCHANGED <<training, feed, x, branch, batch_mean, batch_var, done,
                   pop_mean, pop_var, scale, offset, pre, log, taken>>


----------------------------------------------------------------------------
(***************************************************************************)
(* BatchNormLSTMCell: graph construction in one variable scope.            *)
(* Tensors are [batch, width]; the model keeps the static width.           *)
(***************************************************************************)
MaxUnits == 2

\* a dimension shape inference does not know (get_shape() gives None)
UnknownDim == 0

NoVar == <<>>
NoCell == [kind |-> "none"]
NoRes == [kind |-> "none"]

Sites == {"xh", "hh", "c"}
BNParams == <<"scale", "offset", "pop_mean", "pop_var">>
CellParams == <<"W_xh", "W_hh", "bias">>

\* variable names: <<sub-scope, name>>, the cell's own variables in ""
VarNames ==
    {<<"", CellParams[i]>> : i \in 1..Len(CellParams)}
        \cup {<<st, BNParams[i]>> : st \in Sites, i \in 1..Len(BNParams)}

Reuses == {"None", "True", "False"}
\* forget_bias and activation are only carried into the tensors built: the
\* defaults of __init__
ForgetBiases == {1}
Activations == {"tanh"}
\* widths of the inputs tensor the cell is invoked on
InputSizes == {UnknownDim, 1, 3}
\* widths of the state (c, h) a cell of n units is invoked on: the declared
\* one, a wrong one and, for c, one that broadcasts
CWidths(n) == {1, n, n + 1}
HWidths(n) == {n, n + 1}

CellInit ==
    /\ cell = NoCell
    /\ store = [v \in VarNames |-> NoVar]
    /\ called = FALSE
    /\ res = NoRes

\* BatchNormLSTMCell.__init__
BatchNormLSTMCell(num_units, is_training, forget_bias, activation, reuse) ==
    /\ cell' = [kind |-> "cell", num_units |-> num_units,
                is_training |-> is_training, forget_bias |-> forget_bias,
                activation |-> activation, reuse |-> reuse]
    /\ res' = NoRes
    /\ UNCHANGED <<store, called>>

state_size(c) == [c |-> c.num_units, h |-> c.num_units]
output_size(c) == c.num_units

\* Faulty variant: the scope does not inherit the enclosing scope's reuse flag
ScopeReuseOwn(r, parent) == r = "True"

\* tf.variable_scope(name, reuse=r) entered in a scope whose reuse flag is
\* parent: reuse is on when r is True and is inherited otherwise (False and
\* None both inherit); the sub-scopes batch_norm opens inherit it in turn.
ScopeReuse(r, parent) == r = "True" \/ parent

Compatible(a, b) ==
    /\ Len(a) = Len(b)
    /\ \A i \in 1..Len(a) : a[i] = b[i] \/ a[i] = UnknownDim \/ b[i] = UnknownDim

FullyDefined(a) == \A i \in 1..Len(a) : a[i] # UnknownDim

Fail(s, e) == [s EXCEPT !.err = e]

\* Faulty variant: a reusing scope creates the variables it does not find
GetVariableAutoReuse(s, name, shape, reuse) ==
    IF s.err # "none" THEN s
    ELSE IF s.store[name] # NoVar
    THEN IF ~reuse THEN Fail(s, "already_exists")
         ELSE IF ~Compatible(shape, s.store[name]) THEN Fail(s, "shape_mismatch")
         ELSE s
    ELSE IF ~FullyDefined(shape) THEN Fail(s, "shape_not_defined")
    ELSE [s EXCEPT !.store[name] = shape, !.made = @ \cup {name}]

\* tf.get_variable(name, shape) in a scope whose reuse flag is reuse; s is
\* the state of the construction: the store, the error raised so far, the
\* variables this invocation created.
GetVariable(s, name, shape, reuse) ==
    IF s.err # "none" THEN s
    ELSE IF s.store[name] # NoVar
    THEN IF ~reuse THEN Fail(s, "already_exists")
         ELSE IF ~Compatible(shape, s.store[name]) THEN Fail(s, "shape_mismatch")
         ELSE s
    ELSE IF reuse THEN Fail(s, "does_not_exist")
    ELSE IF ~FullyDefined(shape) THEN Fail(s, "shape_not_defined")
    ELSE [s EXCEPT !.store[name] = shape, !.made = @ \cup {name}]

\* a shape check of an op under construction
Check(s, okay, e) == IF s.err = "none" /\ ~okay THEN Fail(s, e) ELSE s

\* the variables batch_norm(x, name_scope, ...) gets for an x of width size
BatchNormVariables(s, name_scope, size, reuse) ==
    LET s1 == GetVariable(s, <<name_scope, "scale">>, <<size>>, reuse)
        s2 == GetVariable(s1, <<name_scope, "offset">>, <<size>>, reuse)
        s3 == GetVariable(s2, <<name_scope, "pop_mean">>, <<size>>, reuse)
    IN  GetVariable(s3, <<name_scope, "pop_var">>, <<size>>, reuse)

\* width of an elementwise op on widths a and b (broadcasting), 0 if none
Broadcast(a, b) ==
    IF a = b THEN a ELSE IF a = 1 THEN b ELSE IF b = 1 THEN a ELSE 0

\* array_ops.split(value, num_or_size_splits=k, axis=1) of a tensor of the
\* given width: k contiguous slices [lo, hi) of equal width, in order
Split(width, k) ==
    [g \in 1..k |-> [lo |-> (g - 1) * (width \div k), hi |-> g * (width \div k)]]

\* Faulty variant: the slices taken in the order i, f, j, o
GatesForgetSecond(width) ==
    LET sl == Split(width, 4)
    IN  [i |-> sl[1], f |-> sl[2], j |-> sl[3], o |-> sl[4]]

\* i, j, f, o = array_ops.split(value=hidden, num_or_size_splits=4, axis=1)
Gates(width) ==
    LET sl == Split(width, 4)
    IN  [i |-> sl[1], j |-> sl[2], f |-> sl[3], o |-> sl[4]]

\* BatchNormLSTMCell.__call__(inputs, state): inputs of width input_size,
\* state = (c, h) of widths cw and hw, called in a scope whose reuse flag is
\* parent.  The result is the construction state after the last statement
\* reached, with the tensors built.
CallResult(c, st, input_size, cw, hw, parent) ==
    LET n == c.num_units
        reuse == ScopeReuse(c.reuse, parent)
        s0 == [store |-> st, err |-> "none", made |-> {}]
        s1 == GetVariable(s0, <<"", "W_xh">>, <<input_size, 4 * n>>, reuse)
        s2 == GetVariable(s1, <<"", "W_hh">>, <<n, 4 * n>>, reuse)
        s3 == GetVariable(s2, <<"", "bias">>, <<4 * n>>, reuse)
        W_xh == s3.store[<<"", "W_xh">>]
        W_hh == s3.store[<<"", "W_hh">>]
        bias == s3.store[<<"", "bias">>]
        \* xh = tf.matmul(inputs, W_xh); hh = tf.matmul(h, W_hh)
        s4 == Check(s3, Compatible(<<input_size>>, <<W_xh[1]>>), "matmul_shape")
        s5 == Check(s4, hw = W_hh[1], "matmul_shape")
        xh == W_xh[2]
        hh == W_hh[2]
        s6 == BatchNormVariables(s5, "xh", xh, reuse)
        s7 == BatchNormVariables(s6, "hh", hh, reuse)
        \* hidden = bn_xh + bn_hh + bias
        hidden == Broadcast(Broadcast(xh, hh), bias[1])
        s8 == Check(s7, hidden # 0, "add_shape")
        s9 == Check(s8, hidden % 4 = 0, "split_shape")
        g == Gates(hidden)
        gw == g.i.hi - g.i.lo
        \* new_c = c * sigmoid(f + forget_bias) + sigmoid(i) * activation(j)
        wc == Broadcast(Broadcast(cw, gw), Broadcast(gw, gw))
        s10 == Check(s9, wc # 0, "mul_shape")
        new_c == [op |-> "new_c", width |-> wc, c |-> "c", forget |-> g.f,
                  forget_bias |-> c.forget_bias, input |-> g.i, candidate |-> g.j,
                  activation |-> c.activation]
        s11 == BatchNormVariables(s10, "c", wc, reuse)
        bn_new_c == [op |-> "batch_norm", site |-> "c", of |-> new_c, width |-> wc,
                     training |-> c.is_training]
        \* new_h = activation(bn_new_c) * sigmoid(o)
        wh == Broadcast(wc, g.o.hi - g.o.lo)
        s12 == Check(s11, wh # 0, "mul_shape")
        new_h == [op |-> "new_h", width |-> wh, of |-> bn_new_c, output |-> g.o,
                  activation |-> c.activation]
        new_state == [c |-> new_c, h |-> new_h]
    IN  IF s12.err # "none"
        THEN [kind |-> "raised", err |-> s12.err, store |-> s12.store,
              made |-> s12.made]
        ELSE [kind |-> "returned", err |-> "none", store |-> s12.store,
              made |-> s12.made, hidden |-> hidden, gates |-> g,
              output |-> new_h, state |-> new_state]

\* one invocation of the cell (one time step) in the scope
Call(input_size, cw, hw, parent) ==
    /\ cell # NoCell
    /\ LET r == CallResult(cell, store, input_size, cw, hw, parent)
       IN  /\ store' = r.store
           /\ res' = [kind |-> "called", call |-> r, first |-> ~called,
                      parent |-> parent, input_size |-> input_size,
                      cw |-> cw, hw |-> hw, before |-> store]
    /\ called' = TRUE
    /\ UNCHANGED cell

NextCell ==
    \/ /\ \E n \in 1..MaxUnits, t \in BOOLEAN, fb \in ForgetBiases,
             a \in Activations, r \in Reuses :
             BatchNormLSTMCell(n, t, fb, a, r)
       /\ UNCHANGED <<bnVars, initVars, textVars>>
    \/ /\ cell # NoCell
       /\ \E isz \in InputSizes, cw \in CWidths(cell.num_units),
             hw \in HWidths(cell.num_units), parent \in BOOLEAN :
             Call(isz, cw, hw, parent)
       /\ UNCHANGED <<bnVars, initVars, textVars>>


----------------------------------------------------------------------------
(***************************************************************************)
(* orthogonal(shape) and bn_lstm_identity_initializer(scale).  Matrix      *)
(* entries are in hundredths (0.95 is 95), matrices are sequences of rows, *)
(* columns are counted from 0 as in the code.                              *)
(***************************************************************************)
MaxSize == 2

Scales == {0, 95, 250}

Injections(m, k) ==
    {f \in [1..m -> 1..k] : \A a, b \in 1..m : a # b => f[a] # f[b]}

\* What orthogonal([r, c]) can return: a matrix of the flattened shape with
\* orthonormal columns (u, when r >= c) or orthonormal rows (v).  The
\* random normal draw is a choice among the signed partial permutation
\* matrices, which are such matrices.
orthogonal(r, c) ==
    IF r >= c
    THEN {[i \in 1..r |-> [j \in 1..c |-> IF f[j] = i THEN sg * 100 ELSE 0]] :
              f \in Injections(c, r), sg \in {1, -1}}
    ELSE {[i \in 1..r |-> [j \in 1..c |-> IF f[i] = j THEN sg * 100 ELSE 0]] :
              f \in Injections(r, c), sg \in {1, -1}}

\* np.zeros(shape)
Zeros(r, c) == [i \in 1..r |-> [j \in 1..c |-> 0]]

\* np.identity(size) * scale
ScaledIdentity(size, sc) ==
    [i \in 1..size |-> [j \in 1..size |-> IF i = j THEN sc ELSE 0]]

Min(a, b) == IF a <= b THEN a ELSE b

\* the columns a slice lo:hi selects in a matrix of c columns
Clip(lo, hi, c) == [lo |-> Min(lo, c), hi |-> Max(Min(hi, c), Min(lo, c))]

\* t[:, lo:hi] = v for a matrix v: numpy copies v when its width is the
\* slice's, repeats its column when v has one column, and raises otherwise
CanAssign(t, lo, hi, v) ==
    LET sl == Clip(lo, hi, Len(t[1]))
    IN  Len(v[1]) = sl.hi - sl.lo \/ Len(v[1]) = 1

AssignColumns(t, lo, hi, v) ==
    LET sl == Clip(lo, hi, Len(t[1]))
    IN  [i \in 1..Len(t) |->
            [j \in 1..Len(t[1]) |->
                IF sl.lo < j /\ j <= sl.hi
                THEN IF Len(v[1]) = 1 THEN v[i][1] ELSE v[i][j - sl.lo]
                ELSE t[i][j]]]

\* Faulty variant: the identity written to the first block
IdentityColumnsFirst(size) == [lo |-> 0, hi |-> size]

\* the column ranges the four assignments of _initializer name
IdentityColumns(size) == [lo |-> size, hi |-> size * 2]
FirstColumns(size) == [lo |-> 0, hi |-> size]
ThirdColumns(size) == [lo |-> size * 2, hi |-> size * 3]
\* size * 3: has no upper end: up to the last column
LastColumns(size, cols) == [lo |-> size * 3, hi |-> Max(cols, size * 3)]

\* what orthogonal([n, n]) can return, for the sizes of the model
SquareOrthogonal == [n \in 1..MaxSize |-> orthogonal(n, n)]

NoArgs == [kind |-> "none"]
NoTensor == [kind |-> "none"]

\* _initializer(shape) of bn_lstm_identity_initializer(scale = sc), with q1, q2,
\* q3 what the three calls of orthogonal return, in the order of the calls
Initializer(shape, sc, q1, q2, q3) ==
    LET size == shape[1]
        cols == shape[2]
        t0 == Zeros(size, cols)
        r1 == IdentityColumns(size)
        v1 == ScaledIdentity(size, sc)
        t1 == AssignColumns(t0, r1.lo, r1.hi, v1)
        r2 == FirstColumns(size)
        t2 == AssignColumns(t1, r2.lo, r2.hi, q1)
        r3 == ThirdColumns(size)
        t3 == AssignColumns(t2, r3.lo, r3.hi, q2)
        r4 == LastColumns(size, cols)
        t4 == AssignColumns(t3, r4.lo, r4.hi, q3)
        raised(k) == [kind |-> "raised", err |-> "broadcast", calls |-> k]
    IN  IF ~CanAssign(t0, r1.lo, r1.hi, v1) THEN raised(<<>>)
        ELSE IF ~CanAssign(t1, r2.lo, r2.hi, q1) THEN raised(<<q1>>)
        ELSE IF ~CanAssign(t2, r3.lo, r3.hi, q2) THEN raised(<<q1, q2>>)
        ELSE IF ~CanAssign(t3, r4.lo, r4.hi, q3) THEN raised(<<q1, q2, q3>>)
        ELSE [kind |-> "constant", t |-> t4, calls |-> <<q1, q2, q3>>,
              written |-> {Clip(r.lo, r.hi, cols) : r \in {r1, r2, r3, r4}}]

InitializerShapes ==
    {<<n, c>> : n \in 1..MaxSize, c \in 1..(4 * MaxSize + 1)}

InitializerInit ==
    /\ iargs \in [kind : {"args"}, scale : Scales, shape : InitializerShapes]
    /\ tinit = NoTensor

InitializerOff ==
    /\ iargs = NoArgs
    /\ tinit = NoTensor

\* the closure bn_lstm_identity_initializer(scale) returned is called
bn_lstm_identity_initializer ==
    /\ iargs # NoArgs
    /\ tinit = NoTensor
    /\ \E q1, q2, q3 \in SquareOrthogonal[iargs.shape[1]] :
           tinit' = Initializer(iargs.shape, iargs.scale, q1, q2, q3)
    /\ UNCHANGED iargs

NextInit ==
    /\ bn_lstm_identity_initializer
    /\ UNCHANGED <<bnVars, cellVars, textVars>>

----------------------------------------------------------------------------
(***************************************************************************)
(* TextRNN.__init__: the graph it assembles, as the static shapes of the   *)
(* tensors built (UnknownDim for the batch dimension).  The pretrained     *)
(* embedding is a two-dimensional array, given by its shape.               *)
(***************************************************************************)
MaxDim == 2

NoPretrained == <<>>
EmbeddingTypes == {0, 1, 2}

Configs ==
    [sequence_length : 1..MaxDim, num_classes : 1..MaxDim, vocab_size : 1..MaxDim,
     hidden_size : 1..MaxDim, embedding_size : 1..MaxDim,
     embedding_type : EmbeddingTypes,
     pretrained_embedding :
         {NoPretrained} \cup {<<r, c>> : r \in 1..MaxDim, c \in 1..MaxDim}]

\* tf.Variable(tf.random_uniform([vocab_size, embedding_size], -1.0, 1.0))
RandomTable(cfg) ==
    [op |-> "Variable", trainable |-> TRUE, values |-> "random_uniform",
     shape |-> <<cfg.vocab_size, cfg.embedding_size>>]

\* Faulty variant: the frozen table cut to the configured shape
FrozenTableConfigured(cfg) ==
    [op |-> "constant", trainable |-> FALSE, values |-> "pretrained",
     shape |-> <<cfg.vocab_size, cfg.embedding_size>>]

\* tf.constant(pretrained_embedding)
FrozenTable(cfg) ==
    [op |-> "constant", trainable |-> FALSE, values |-> "pretrained",
     shape |-> cfg.pretrained_embedding]

\* tf.Variable(pretrained_embedding, trainable=True)
TrainableTable(cfg) ==
    [op |-> "Variable", trainable |-> TRUE, values |-> "pretrained",
     shape |-> cfg.pretrained_embedding]

\* Faulty variant: the second test of embedding_type always passes
IsTrainableTypeAlways(embedding_type) == TRUE

\* if embedding_type == 0: ... if embedding_type == 1: ...
IsFrozenType(embedding_type) == embedding_type = 0
IsTrainableType(embedding_type) == embedding_type = 1

\* the tables the embedding block assigns to self.W, in order
EmbeddingTables(cfg) ==
    IF cfg.pretrained_embedding = NoPretrained
    THEN <<RandomTable(cfg)>>
    ELSE (IF IsFrozenType(cfg.embedding_type) THEN <<FrozenTable(cfg)>> ELSE <<>>)
         \o (IF IsTrainableType(cfg.embedding_type)
             THEN <<TrainableTable(cfg)>> ELSE <<>>)

\* TextRNN.__init__ from the embedding block on
Construct(cfg) ==
    LET tables == EmbeddingTables(cfg)
        W == tables[Len(tables)]
        \* tf.nn.embedding_lookup(self.W, self.input_x)
        embedded_chars == <<UnknownDim, cfg.sequence_length, W.shape[2]>>
        \* outputs of the two directions, concatenated on axis 2
        output_rnn == <<UnknownDim, cfg.sequence_length, cfg.hidden_size * 2>>
        \* tf.reduce_mean(output_rnn, axis=1)
        output_rnn_last == <<output_rnn[1], output_rnn[3]>>
        W_out == <<cfg.hidden_size * 2, cfg.num_classes>>
        logits == <<output_rnn_last[1], W_out[2]>>
    IN  IF tables = <<>>
        THEN [kind |-> "raised", err |-> "AttributeError", tables |-> tables,
              lookup |-> FALSE]
        ELSE [kind |-> "constructed", err |-> "none", tables |-> tables,
              lookup |-> TRUE, W |-> W,
              input_x |-> <<UnknownDim, cfg.sequence_length>>,
              input_y |-> <<UnknownDim, cfg.num_classes>>,
              embedded_chars |-> embedded_chars,
              output_rnn_last |-> output_rnn_last,
              logits |-> logits, loss |-> <<>>]

NoConfig == [kind |-> "none"]
NoModel == [kind |-> "none"]

TextInit ==
    /\ config \in Configs
    /\ model = NoModel

TextOff ==
    /\ config = NoConfig
    /\ model = NoModel

\* TextRNN(sequence_length, ..., pretrained_embedding) in an empty graph
TextRNN ==
    /\ config # NoConfig
    /\ model = NoModel
    /\ model' = Construct(config)
    /\ UNCHANGED config

NextText ==
    /\ TextRNN
    /\ UNCHANGED <<bnVars, cellVars, initVars>>

NextBN ==
    /\ \/ \E t \in BOOLEAN : batch_norm(t)
       \/ \E b \in Batches, f \in BOOLEAN : Run(b, f)
       \/ Cond
       \/ Moments
       \/ train_mean_op
       \/ train_var_op
       \/ batch_statistics
       \/ population_statistics
    /\ UNCHANGED <<cellVars, initVars, textVars>>

InitBN == BNInit /\ CellInit /\ InitializerOff /\ TextOff

SpecBN == InitBN /\ [][NextBN]_vars

InitCell == CellInit /\ BNOff /\ InitializerOff /\ TextOff

SpecCell == InitCell /\ [][NextCell]_vars

InitInit == InitializerInit /\ BNOff /\ CellInit /\ TextOff

SpecInit == InitInit /\ [][NextInit]_vars

InitText == TextInit /\ BNOff /\ CellInit /\ InitializerOff

SpecText == InitText /\ [][NextText]_vars

----------------------------------------------------------------------------
(***************************************************************************)
(* Claims about batch_norm, checked under SpecBN.                          *)
(***************************************************************************)

BothAssigns == {"train_mean_op", "train_var_op"}

\* C3: an execution in inference mode (the population-statistics branch)
\* leaves pop_mean and pop_var as they were when it began and normalizes
\* with them; the running estimates change only in steps of a training-mode
\* execution, so inference-mode executions alone leave them at zero and one.
C3_InferenceKeepsEstimates ==
    /\ [](/\ branch = "population" =>
               /\ pop_mean = pre.mean
               /\ pop_var = pre.var
               /\ out.kind = "normalized" =>
                      /\ out.mean = pre.mean
                      /\ out.variance = pre.var
          /\ log = <<>> => pop_mean = ZerosInit /\ pop_var = OnesInit)
    /\ [][(pop_mean' # pop_mean \/ pop_var' # pop_var) => branch = "batch"]_vars

\* an inference-mode execution that ran after training-mode executions moved
\* the estimates, on a batch whose moments differ from the estimates
C3_Witness ==
    /\ branch = "population"
    /\ out.kind = "normalized"
    /\ log # <<>>
    /\ pop_mean # ZerosInit
    /\ pop_var # OnesInit
    /\ out.mean # MomentsMean(x)
    /\ out.variance # MomentsVar(x)

\* the recurrence as the claim states it: p * decay + s * (1 - decay)
C4_Ema(p, s) ==
    [j \in DOMAIN p |->
        FxAdd(FxTimes(p[j], DecayNum), FxTimes(s[j], DecayDen - DecayNum))]

RECURSIVE C4_FoldMean(_, _)
C4_FoldMean(p, batches) ==
    IF batches = <<>> THEN p
    ELSE C4_FoldMean(C4_Ema(p, MomentsMean(Head(batches))), Tail(batches))

RECURSIVE C4_FoldVar(_, _)
C4_FoldVar(p, batches) ==
    IF batches = <<>> THEN p
    ELSE C4_FoldVar(C4_Ema(p, MomentsVar(Head(batches))), Tail(batches))

\* C4: a completed training-mode execution on a batch with per-feature mean
\* m and variance v has replaced the running estimates by
\* pop_mean*decay + m*(1-decay) and pop_var*decay + v*(1-decay), computed
\* from the values held when it began, and has not written scale or offset;
\* between executions the estimates are the k-fold recurrence over the k
\* training batches so far, started from zero and one.
C4_TrainingUpdatesEstimates ==
    /\ (branch = "batch" /\ pc = "idle") =>
           /\ pop_mean = C4_Ema(pre.mean, MomentsMean(x))
           /\ pop_var = C4_Ema(pre.var, MomentsVar(x))
           /\ scale = pre.scale
           /\ offset = pre.offset
    /\ pc = "idle" =>
           /\ pop_mean = C4_FoldMean(ZerosInit, log)
           /\ pop_var = C4_FoldVar(OnesInit, log)

\* the second training-mode execution has completed and moved both estimates
C4_Witness ==
    /\ branch = "batch"
    /\ pc = "idle"
    /\ Len(log) = 2
    /\ log[1] # log[2]
    /\ pop_mean # pre.mean
    /\ pop_var # pre.var
    /\ pre.mean # ZerosInit

\* C5 as stated: the branch an execution takes follows the mode wanted when
\* the graph is executed, so that one built site, executed once with the flag
\* true and once with it false, takes both branches.
C5_BranchFollowsRuntimeFlag ==
    \A t \in taken : (t[2] = "batch") <=> t[1]

\* C5 as amended: tf.cond dispatches when the graph is executed, but on the
\* constant captured from is_training when the site was built: every
\* execution of a built site takes the branch of that constant, whatever mode
\* is wanted at execution time.
C5_BranchFollowsBuiltConstant ==
    /\ \A t \in taken : (t[2] = "batch") <=> training
    /\ branch # "none" => ((branch = "batch") <=> training)

\* one built site has been executed in training mode with the flag wanted
\* true and again with the flag wanted false
C5_Witness ==
    /\ pc = "idle"
    /\ {<<TRUE, "batch">>, <<FALSE, "batch">>} \subseteq taken
    /\ Len(log) = 2

\* C9: when a training-mode execution produces its output, both assign ops
\* have completed (the variables hold the updated estimates) and the output
\* is normalized with the batch moments of that execution.
C9_AssignsBeforeOutput ==
    (branch = "batch" /\ out.kind = "normalized") =>
        /\ done = BothAssigns
        /\ pop_mean = C4_Ema(pre.mean, MomentsMean(x))
        /\ pop_var = C4_Ema(pre.var, MomentsVar(x))
        /\ out.mean = MomentsMean(x)
        /\ out.variance = MomentsVar(x)

\* the batch moments differ from the estimates before and after the update
C9_Witness ==
    /\ branch = "batch"
    /\ out.kind = "normalized"
    /\ \A j \in 1..Size :
           /\ out.mean[j] # pre.mean[j]
           /\ out.mean[j] # pop_mean[j]
           /\ out.variance[j] # pre.var[j]
           /\ out.variance[j] # pop_var[j]

----------------------------------------------------------------------------
(***************************************************************************)
(* Claims about BatchNormLSTMCell, checked under SpecCell.  res describes  *)
(* the last invocation, res.before the scope as that invocation found it.  *)
(***************************************************************************)

Held(st) == {v \in VarNames : st[v] # NoVar}

\* reuse is in effect for the last invocation: asked for on the cell or
\* inherited from the scope the cell was invoked in
ReuseInEffect == cell.reuse = "True" \/ res.parent

ScopeErrors == {"already_exists", "does_not_exist"}

\* the last invocation is a time step like the one that created the
\* parameters: same input width and a state of the declared state_size
SameStep ==
    /\ Held(res.before) = VarNames
    /\ res.before[<<"", "W_xh">>] = <<res.input_size, 4 * cell.num_units>>
    /\ res.before[<<"", "W_hh">>] = <<cell.num_units, 4 * cell.num_units>>
    /\ res.before[<<"c", "scale">>] = <<cell.num_units>>
    /\ res.cw = state_size(cell).c
    /\ res.hw = state_size(cell).h

Slice(lo, hi) == [lo |-> lo, hi |-> hi]

\* C6: a step on inputs of statically known width and a state of the
\* declared state_size builds hidden of width 4*num_units, splits it into
\* the contiguous slices i, j, f, o of width num_units in that order, and
\* returns an output and a state (new_c, new_h) of width num_units
\* (output_size, state_size); the output is the state's h, and the state's
\* c is new_c as computed before batch normalization at site c.
C6_WidthsAndGateOrder ==
    (/\ res.kind = "called"
     /\ res.call.kind = "returned"
     /\ res.input_size # UnknownDim
     /\ res.cw = state_size(cell).c
     /\ res.hw = state_size(cell).h) =>
        LET n == cell.num_units
            r == res.call
        IN  /\ r.hidden = 4 * n
            /\ r.gates.i = Slice(0, n)
            /\ r.gates.j = Slice(n, 2 * n)
            /\ r.gates.f = Slice(2 * n, 3 * n)
            /\ r.gates.o = Slice(3 * n, 4 * n)
            /\ r.output.width = n
            /\ r.output.width = output_size(cell)
            /\ r.state.c.width = state_size(cell).c
            /\ r.state.h.width = state_size(cell).h
            /\ r.output = r.state.h
            /\ r.state.c.op = "new_c"
            /\ r.state.c.input = r.gates.i
            /\ r.state.c.candidate = r.gates.j
            /\ r.state.c.forget = r.gates.f
            /\ r.output.output = r.gates.o
            /\ r.output.of.op = "batch_norm"
            /\ r.output.of.site = "c"
            /\ r.output.of.of = r.state.c

\* a step of a cell with more than one unit has returned
C6_Witness ==
    /\ res.kind = "called"
    /\ res.call.kind = "returned"
    /\ res.input_size # UnknownDim
    /\ res.input_size # cell.num_units
    /\ cell.num_units > 1
    /\ res.cw = cell.num_units
    /\ res.hw = cell.num_units

----------------------------------------------------------------------------
(***************************************************************************)
(* Claim about the initializers, checked under SpecInit.                   *)
(***************************************************************************)

\* the n columns of t from column lo (counted from 0), as an n-by-n matrix
Block(t, lo, n) == [i \in 1..n |-> [j \in 1..n |-> t[i][lo + j]]]

\* C10: called for shape [n, 4n] with scale s, the initializer returns a
\* matrix whose columns n..2n-1 are s times the identity and whose column
\* blocks 0..n-1, 2n..3n-1, 3n..4n-1 are what three separate calls of
\* orthogonal([n, n]) returned, in that order; every column is written; the
\* identity block is the slice the cell's split of hidden names j.
C10_IdentityInCandidateBlock ==
    (tinit # NoTensor /\ iargs.shape[2] = 4 * iargs.shape[1]) =>
        LET n == iargs.shape[1]
        IN  /\ tinit.kind = "constant"
            /\ Block(tinit.t, n, n) = ScaledIdentity(n, iargs.scale)
            /\ Len(tinit.calls) = 3
            /\ \A k \in 1..3 : tinit.calls[k] \in SquareOrthogonal[n]
            /\ Block(tinit.t, 0, n) = tinit.calls[1]
            /\ Block(tinit.t, 2 * n, n) = tinit.calls[2]
            /\ Block(tinit.t, 3 * n, n) = tinit.calls[3]
            /\ \A col \in 0..(4 * n - 1) :
                   \E w \in tinit.written : w.lo <= col /\ col < w.hi
            /\ Gates(4 * n).j = Slice(n, 2 * n)
            /\ Gates(iargs.shape[2]).j \in tinit.written

\* a matrix for more than one unit whose three orthogonal blocks differ from
\* each other and from the identity block
C10_Witness ==
    /\ tinit # NoTensor
    /\ tinit.kind = "constant"
    /\ iargs.shape[1] > 1
    /\ iargs.shape[2] = 4 * iargs.shape[1]
    /\ iargs.scale = 95
    /\ tinit.calls[1] # tinit.calls[2]
    /\ tinit.calls[2] # tinit.calls[3]
    /\ tinit.calls[1] # tinit.calls[3]

----------------------------------------------------------------------------
(***************************************************************************)
(* Claims about TextRNN.__init__, checked under SpecText.                  *)
(***************************************************************************)

ConfiguredShape == <<config.vocab_size, config.embedding_size>>

Mode(table) ==
    IF table.values = "random_uniform" /\ table.op = "Variable" /\ table.trainable
    THEN "random"
    ELSE IF table.values = "pretrained" /\ table.op = "constant" /\ ~table.trainable
    THEN "frozen"
    ELSE IF table.values = "pretrained" /\ table.op = "Variable" /\ table.trainable
    THEN "trainable"
    ELSE "other"

Modes(tables) == [k \in 1..Len(tables) |-> Mode(tables[k])]

====
